---------------------------- MODULE Spec2Model ----------------------------
(***************************************************************************)
(* Model of notebooks/project_imports.py: DirectoryMapper (path layout and *)
(* load_data), handle_date_cols, create_date_parts and groupby_and_agg.    *)
(*                                                                         *)
(* Python strings are sequences of one-character strings, so that          *)
(* indexing, concatenation, '_'.join and removesuffix are computed and not *)
(* assumed.  A DataFrame is a record                                       *)
(*    [cols, dtypes, multi, index, data]                                   *)
(* cols   : the column labels in column order (a name, or a <<name, func>> *)
(*          pair when the columns are a MultiIndex),                       *)
(* dtypes : the dtype of each column ("str", "num", "float", "date"),      *)
(* multi  : TRUE iff the columns are a pandas MultiIndex,                  *)
(* index  : the names of the row-index levels (<<>> for a RangeIndex) and  *)
(*          idtypes their dtypes,                                          *)
(* data   : the rows, each [key |-> index values, val |-> cell values].    *)
(***************************************************************************)
EXTENDS Integers, Sequences, FiniteSets, TLC

VARIABLES self, df, pc, call, ret

vars == <<self, df, pc, call, ret>>

(***************************************************************************)
(* Bounds of the explored inputs.                                          *)
(***************************************************************************)
MaxRows == 3
MaxRowsMulti == 2
MaxDateCols == 2

(***************************************************************************)
(* Generic helpers.                                                        *)
(***************************************************************************)
Range(s) == {s[i] : i \in 1..Len(s)}

Contains(s, e) == \E i \in 1..Len(s) : s[i] = e

IndexOf(s, e) == CHOOSE i \in 1..Len(s) : s[i] = e /\ \A j \in 1..(i-1) : s[j] # e

SeqsUpTo(S, lo, hi) == UNION {[1..n -> S] : n \in lo..hi}

RECURSIVE Flatten(_)
Flatten(ss) == IF ss = <<>> THEN <<>> ELSE Head(ss) \o Flatten(Tail(ss))

RECURSIVE SumSeq(_)
SumSeq(s) == IF s = <<>> THEN 0 ELSE Head(s) + SumSeq(Tail(s))

(***************************************************************************)
(* Python str operations used by the code.                                 *)
(***************************************************************************)
\* sep.join(parts)
RECURSIVE Join(_, _)
Join(sep, parts) ==
    IF parts = <<>> THEN <<>>
    ELSE IF Len(parts) = 1 THEN parts[1]
    ELSE parts[1] \o sep \o Join(sep, Tail(parts))

\* s.removesuffix(suf): removes suf once when s ends with it
removesuffix(s, suf) ==
    IF Len(suf) > 0 /\ Len(s) >= Len(suf)
       /\ SubSeq(s, Len(s) - Len(suf) + 1, Len(s)) = suf
    THEN SubSeq(s, 1, Len(s) - Len(suf))
    ELSE s

\* the literals of the code
US == <<"_">>
DOT == <<".">>
PARQUET == <<"p","a","r","q","u","e","t">>
CSV == <<"c","s","v">>
YEAR == <<"Y","E","A","R">>
MONTH == <<"M","O","N","T","H">>

\* the absent value of an optional argument or result
None == "<None>"
NoErr == ""

(***************************************************************************)
(* DirectoryMapper.__init__: a path is [dir |-> directory components,      *)
(* file |-> file name]; "/" appends a component.                           *)
(***************************************************************************)
BaseDir == <<"Users", "kevinstoltz", "Documents", "Projects", "Kaggle">>

DirectoryMapper(project_name, base_dir) ==
    LET project_dir == Append(base_dir, project_name)
        data_dir == Append(project_dir, "data")
        output_dir == Append(project_dir, "reports")
    IN [base_dir |-> base_dir,
        project_dir |-> project_dir,
        config_path |-> Append(project_dir, "configs"),
        sql_dir |-> Append(project_dir, "sql"),
        data_dir |-> data_dir,
        raw_data_dir |-> Append(data_dir, "raw"),
        interim_data_dir |-> Append(data_dir, "interim"),
        processed_data_dir |-> Append(data_dir, "processed"),
        external_data_dir |-> Append(data_dir, "external"),
        model_dir |-> Append(project_dir, "models"),
        output_dir |-> output_dir,
        output_data_dir |-> Append(output_dir, "data"),
        output_figs_dir |-> Append(output_dir, "figures"),
        output_pred_dir |-> Append(output_dir, "predictions")]

NoPath == [dir |-> <<>>, file |-> <<>>]
NoReader == ""

(***************************************************************************)
(* DirectoryMapper.load_data.  The outcome is the error raised (if any),   *)
(* the pandas reader invoked and the path handed to it.                    *)
(***************************************************************************)
LoadFail(e) == [err |-> e, reader |-> NoReader, path |-> NoPath]

\* lines 40-42: strip one leading '.'; file_type[0] of '' raises IndexError
StripDot(file_type) == IF file_type[1] = "." THEN Tail(file_type) ELSE file_type

\* a copy-and-paste slip: interim resolves to the raw directory
LevelDir_Slip(dm, level) ==
    CASE level = None -> <<>>
      [] level = "raw" -> dm.raw_data_dir
      [] level = "interim" -> dm.raw_data_dir
      [] level = "processed" -> dm.processed_data_dir
      [] level = "external" -> dm.external_data_dir
      [] OTHER -> <<"invalid">>

\* lines 48-59: the directory of a level; "invalid" stands for the raise
LevelDir(dm, level) ==
    CASE level = None -> <<>>
      [] level = "raw" -> dm.raw_data_dir
      [] level = "interim" -> dm.interim_data_dir
      [] level = "processed" -> dm.processed_data_dir
      [] level = "external" -> dm.external_data_dir
      [] OTHER -> <<"invalid">>

ValidLevel(level) == level \in {None, "raw", "interim", "processed", "external"}

\* lines 61-67: the reader of a normalised file type
Reader(ft) ==
    IF ft = PARQUET THEN "read_parquet"
    ELSE IF ft = CSV THEN "read_csv"
    ELSE NoReader

load_data(dm, file_name, level, file_type) ==
    IF Len(file_type) = 0 THEN LoadFail("IndexError")
    ELSE
      LET ft == StripDot(file_type)
          fname == file_name \o DOT \o ft
      IN IF ~ValidLevel(level)
         THEN LoadFail("ValueError: Please provide valid level")
         ELSE IF Reader(ft) = NoReader
         THEN LoadFail("ValueError: Provide valid file type")
         ELSE [err |-> NoErr, reader |-> Reader(ft),
               path |-> [dir |-> LevelDir(dm, level), file |-> fname]]

(***************************************************************************)
(* DataFrames.                                                             *)
(***************************************************************************)
Frame(cols, dtypes, data) ==
    [cols |-> cols, dtypes |-> dtypes, multi |-> FALSE, index |-> <<>>,
     idtypes |-> <<>>, data |-> data]

NoFrame == Frame(<<>>, <<>>, <<>>)

\* name in df.columns
HasCol(t, name) == Contains(t.cols, name)

ColPos(t, name) == IndexOf(t.cols, name)

ColDtype(t, name) == t.dtypes[ColPos(t, name)]

\* df[name] as the sequence of its values
ColVals(t, name) == [i \in 1..Len(t.data) |-> t.data[i].val[ColPos(t, name)]]

\* df[name] = vals: overwrite in place when the column exists, append otherwise
SetCol(t, name, dtype, vals) ==
    IF HasCol(t, name)
    THEN LET p == ColPos(t, name)
         IN [t EXCEPT !.dtypes[p] = dtype,
                      !.data = [i \in 1..Len(t.data) |->
                                  [t.data[i] EXCEPT !.val[p] = vals[i]]]]
    ELSE [t EXCEPT !.cols = Append(t.cols, name),
                   !.dtypes = Append(t.dtypes, dtype),
                   !.data = [i \in 1..Len(t.data) |->
                               [t.data[i] EXCEPT !.val = Append(@, vals[i])]]]

\* the positions 1..n as a sequence
Positions(n) == [i \in 1..n |-> i]

\* the frame restricted to the column positions ps, in that order
TakeCols(t, ps) ==
    [t EXCEPT !.cols = [j \in 1..Len(ps) |-> t.cols[ps[j]]],
              !.dtypes = [j \in 1..Len(ps) |-> t.dtypes[ps[j]]],
              !.data = [i \in 1..Len(t.data) |->
                          [t.data[i] EXCEPT
                             !.val = [j \in 1..Len(ps) |-> t.data[i].val[ps[j]]]]]]

\* df.drop(labels, axis=1)
DropCols(t, labels) ==
    LET keep(i) == ~Contains(labels, t.cols[i])
    IN TakeCols(t, SelectSeq(Positions(Len(t.cols)), keep))

\* df.select_dtypes(include=['datetime64']).columns
DatetimeCols(t) ==
    LET keep(i) == t.dtypes[i] = "date"
        ps == SelectSeq(Positions(Len(t.cols)), keep)
    IN [j \in 1..Len(ps) |-> t.cols[ps[j]]]

(***************************************************************************)
(* create_date_parts.  The frame is mutated in place, so a raise leaves    *)
(* the columns assigned so far.                                            *)
(***************************************************************************)
\* a copy-and-paste slip: the MONTH branch reads .dt.year
DatePartsOf_Slip(t, c) ==
    IF ColDtype(t, c) # "date" THEN [err |-> "AttributeError", df |-> t]
    ELSE
      LET vals == ColVals(t, c)
          t1 == SetCol(t, c \o US \o YEAR, "num",
                       [i \in 1..Len(vals) |-> vals[i].year])
      IN IF ColDtype(t1, c) # "date" THEN [err |-> "AttributeError", df |-> t1]
         ELSE
           LET vals1 == ColVals(t1, c)
           IN [err |-> NoErr,
               df |-> SetCol(t1, c \o US \o MONTH, "num",
                             [i \in 1..Len(vals1) |-> vals1[i].year])]

\* one iteration of the loop over date_cols (lines 131-135) for column c;
\* .dt of a column that is no longer datetime raises AttributeError
DatePartsOf(t, c) ==
    IF ColDtype(t, c) # "date" THEN [err |-> "AttributeError", df |-> t]
    ELSE
      LET vals == ColVals(t, c)
          t1 == SetCol(t, c \o US \o YEAR, "num",
                       [i \in 1..Len(vals) |-> vals[i].year])
      IN IF ColDtype(t1, c) # "date" THEN [err |-> "AttributeError", df |-> t1]
         ELSE
           LET vals1 == ColVals(t1, c)
           IN [err |-> NoErr,
               df |-> SetCol(t1, c \o US \o MONTH, "num",
                             [i \in 1..Len(vals1) |-> vals1[i].month])]

RECURSIVE DatePartsLoop(_, _)
DatePartsLoop(t, date_cols) ==
    IF date_cols = <<>> THEN [err |-> NoErr, df |-> t]
    ELSE LET r == DatePartsOf(t, Head(date_cols))
         IN IF r.err # NoErr THEN r ELSE DatePartsLoop(r.df, Tail(date_cols))

create_date_parts(t, drop_date_cols) ==
    LET date_cols == DatetimeCols(t)
        r == DatePartsLoop(t, date_cols)
    IN IF r.err # NoErr THEN r
       ELSE IF drop_date_cols THEN [err |-> NoErr, df |-> DropCols(r.df, date_cols)]
       ELSE r

(***************************************************************************)
(* handle_date_cols.                                                       *)
(***************************************************************************)
\* pd.to_datetime of one value: a string is parsed (None: unparseable), an
\* integer is a count of nanoseconds since the epoch, a datetime is kept
Date(y, m) == [year |-> y, month |-> m]

Unparseable == Date(0, 0)

ParseDate(s) ==
    CASE s = "2019-12-31" -> Date(2019, 12)
      [] s = "2020-01-15" -> Date(2020, 1)
      [] OTHER -> Unparseable

to_datetime(dtype, v) ==
    CASE dtype = "date" -> v
      [] dtype = "num" -> Date(1970, 1)
      [] OTHER -> ParseDate(v)

\* lines 97-98: df[d] = pd.to_datetime(df[d]) for each d in date_cols
RECURSIVE ConvertLoop(_, _)
ConvertLoop(t, date_cols) ==
    IF date_cols = <<>> THEN [err |-> NoErr, df |-> t]
    ELSE
      LET d == Head(date_cols)
      IN IF ~HasCol(t, d) THEN [err |-> "KeyError", df |-> t]
         ELSE
           LET dt == ColDtype(t, d)
               vals == ColVals(t, d)
               conv == [i \in 1..Len(vals) |-> to_datetime(dt, vals[i])]
           IN IF \E i \in 1..Len(vals) : dt = "str" /\ ParseDate(vals[i]) = Unparseable
              THEN [err |-> "DateParseError", df |-> t]
              ELSE ConvertLoop(SetCol(t, d, "date", conv), Tail(date_cols))

\* kwargs is None (no keyword given, the default drop_date_cols=True of
\* create_date_parts applies) or the value given for drop_date_cols
handle_date_cols(t, date_cols, add_date_parts, kwargs) ==
    LET r == ConvertLoop(t, date_cols)
    IN IF r.err # NoErr THEN r
       ELSE IF add_date_parts
            THEN create_date_parts(r.df, IF kwargs = None THEN TRUE ELSE kwargs = "True")
       ELSE r

(***************************************************************************)
(* pandas groupby(...).agg(...).  groupby sorts the group keys (sort=True  *)
(* is the default, and the code passes no sort argument).                  *)
(***************************************************************************)
SUM == <<"s","u","m">>
MEAN == <<"m","e","a","n">>

\* the order of str values (code point order)
StrOrder == <<"2019-12-31", "2020-01-15", "a", "b", "bad">>

LessVal(dtype, a, b) ==
    IF dtype = "num" THEN a < b ELSE IndexOf(StrOrder, a) < IndexOf(StrOrder, b)

\* lexicographic order of key tuples
RECURSIVE LessKey(_, _, _)
LessKey(dtypes, a, b) ==
    IF a = <<>> THEN FALSE
    ELSE IF a[1] = b[1] THEN LessKey(Tail(dtypes), Tail(a), Tail(b))
    ELSE LessVal(dtypes[1], a[1], b[1])

\* the group keys in ascending order
RECURSIVE SortKeys(_, _)
SortKeys(dtypes, S) ==
    IF S = {} THEN <<>>
    ELSE LET m == CHOOSE k \in S : \A o \in S : o = k \/ LessKey(dtypes, k, o)
         IN <<m>> \o SortKeys(dtypes, S \ {m})

\* the key tuple of row i for key column positions kp
RowKey(t, kp, i) == [j \in 1..Len(kp) |-> t.data[i].val[kp[j]]]

\* the distinct keys in the order of their first row (what sort=False gives)
RECURSIVE FirstRows(_, _, _)
FirstRows(t, kp, n) ==
    IF n = 0 THEN <<>>
    ELSE LET r == FirstRows(t, kp, n - 1)
         IN IF Contains(r, RowKey(t, kp, n)) THEN r ELSE Append(r, RowKey(t, kp, n))

GroupOrder_Unsorted(t, kp) == FirstRows(t, kp, Len(t.data))

\* the order of the groups of df.groupby(keys)
GroupOrder(t, kp) ==
    SortKeys([j \in 1..Len(kp) |-> t.dtypes[kp[j]]],
             {RowKey(t, kp, i) : i \in 1..Len(t.data)})

\* one aggregation of the values of a group; mean is the exact quotient
\* sum/count, kept as [n, d]
Aggregate(fn, vals) ==
    IF fn = MEAN THEN [n |-> SumSeq(vals), d |-> Len(vals)] ELSE SumSeq(vals)

AggDtype(fn) == IF fn = MEAN THEN "float" ELSE "num"

\* the output columns of .agg(agg_) as [label, src, fn]: a function name is
\* applied to every non-key column; a dict gives its keys in order, with
\* two-level labels as soon as one value is a list
AggMulti(agg_) == agg_.dict /\ \E i \in 1..Len(agg_.items) : agg_.items[i].list

AggColumns(t, keys, agg_) ==
    IF ~agg_.dict
    THEN LET keep(i) == ~Contains(keys, t.cols[i])
             ps == SelectSeq(Positions(Len(t.cols)), keep)
         IN [j \in 1..Len(ps) |->
               [label |-> t.cols[ps[j]], src |-> ps[j], fn |-> agg_.f]]
    ELSE Flatten([i \in 1..Len(agg_.items) |->
           LET it == agg_.items[i]
           IN [j \in 1..Len(it.fs) |->
                 [label |-> IF AggMulti(agg_) THEN <<it.key, it.fs[j]>> ELSE it.key,
                  src |-> ColPos(t, it.key), fn |-> it.fs[j]]]])

\* df.groupby(keys).agg(agg_): one row per group, the keys in the index
GroupAgg(t, keys, agg_) ==
    LET kp == [j \in 1..Len(keys) |-> ColPos(t, keys[j])]
        order == GroupOrder(t, kp)
        outc == AggColumns(t, keys, agg_)
        members(k) == SelectSeq(Positions(Len(t.data)),
                                LAMBDA i : RowKey(t, kp, i) = k)
    IN [cols |-> [c \in 1..Len(outc) |-> outc[c].label],
        dtypes |-> [c \in 1..Len(outc) |-> AggDtype(outc[c].fn)],
        multi |-> AggMulti(agg_),
        index |-> keys,
        idtypes |-> [j \in 1..Len(kp) |-> t.dtypes[kp[j]]],
        data |-> [g \in 1..Len(order) |->
                    [key |-> order[g],
                     val |-> [c \in 1..Len(outc) |->
                                LET ms == members(order[g])
                                IN Aggregate(outc[c].fn,
                                     [m \in 1..Len(ms) |->
                                        t.data[ms[m]].val[outc[c].src]])]]]]

\* df.reset_index(): the index levels become the leading columns; under a
\* MultiIndex their labels are (name, '')
ResetIndex(t) ==
    [cols |-> [j \in 1..Len(t.index) |->
                 IF t.multi THEN <<t.index[j], <<>>>> ELSE t.index[j]] \o t.cols,
     dtypes |-> t.idtypes \o t.dtypes,
     multi |-> t.multi,
     index |-> <<>>,
     idtypes |-> <<>>,
     data |-> [i \in 1..Len(t.data) |->
                 [key |-> <<>>, val |-> t.data[i].key \o t.data[i].val]]]

\* the join without the removal of the trailing '_'
CollapseLabel_NoStrip(col) == Join(US, col)

\* lines 215-217: '_'.join(col), then removesuffix("_")
CollapseLabel(col) == removesuffix(Join(US, col), US)

Collapse(t) ==
    [t EXCEPT !.cols = [j \in 1..Len(t.cols) |-> CollapseLabel(t.cols[j])],
              !.multi = FALSE]

\* df[labels]: with flat columns every label selects its column; with a
\* MultiIndex a name selects the columns whose first level it is.  The
\* result is the column positions, <<>> for a label that selects nothing.
SelectPos(t, label) ==
    SelectSeq(Positions(Len(t.cols)),
              LAMBDA i : IF t.multi THEN t.cols[i][1] = label ELSE t.cols[i] = label)

GetItem(t, labels) ==
    IF \E j \in 1..Len(labels) : SelectPos(t, labels[j]) = <<>>
    THEN [err |-> "KeyError", df |-> NoFrame]
    ELSE [err |-> NoErr,
          df |-> TakeCols(t, Flatten([j \in 1..Len(labels) |-> SelectPos(t, labels[j])]))]

(***************************************************************************)
(* groupby_and_agg.                                                        *)
(*   groupby_cols : [str |-> TRUE, v |-> <<name>>] for a str,              *)
(*                  [str |-> FALSE, v |-> names] for a list                *)
(*   agg_         : [dict |-> FALSE, f |-> func] for a str,                *)
(*                  [dict |-> TRUE, items |-> <<[key, list, fs]>>] for a   *)
(*                  dict, in key order; list tells a list value from a str *)
(*   return_cols  : [none |-> TRUE] or [none |-> FALSE, v |-> names]       *)
(*   reset_index  : None when the keyword is absent, else its value        *)
(*                  ("True", "False", or a non-bool)                       *)
(* The outcome is the error raised, the warnings emitted, the returned     *)
(* frame and whether the returned object is the argument df itself.        *)
(***************************************************************************)
AggFail(e, w) == [err |-> e, warn |-> w, df |-> NoFrame, same |-> FALSE]

W_INVALID == "Invalid column name passed in agg_ argument - returning original DataFrame"
W_NOMULTI == "No MultiIndex detected. No column collapse wil be performed"

\* lines 193-197: some key of the dict is not a column of df
InvalidAggKey(t, agg_) ==
    agg_.dict /\ \E i \in 1..Len(agg_.items) : ~HasCol(t, agg_.items[i].key)

\* the soft failure without its warning
SoftFail_Silent(t) == [err |-> NoErr, warn |-> <<>>, df |-> t, same |-> TRUE]

\* lines 196-197: warn and return the argument itself
SoftFail(t) == [err |-> NoErr, warn |-> <<W_INVALID>>, df |-> t, same |-> TRUE]

\* the collapse step without the else branch that warns
CollapseStep_NoWarn(t, collapse_multicolumn) ==
    IF collapse_multicolumn /\ t.multi THEN [df |-> Collapse(t), warn |-> <<>>]
    ELSE [df |-> t, warn |-> <<>>]

\* lines 213-219: collapse a MultiIndex, warn about anything else
CollapseStep(t, collapse_multicolumn) ==
    IF ~collapse_multicolumn THEN [df |-> t, warn |-> <<>>]
    ELSE IF t.multi THEN [df |-> Collapse(t), warn |-> <<>>]
    ELSE [df |-> t, warn |-> <<W_NOMULTI>>]

\* the grouping columns prepended whether or not the index was reset
ReturnCols_Always(groupby_cols, return_cols, reset_index_) ==
    groupby_cols.v \o return_cols.v

\* lines 222-226: the labels to select (a str groupby_cols cannot be added
\* to a list: groupby_and_agg raises TypeError before this is used)
ReturnCols(groupby_cols, return_cols, reset_index_) ==
    IF reset_index_ THEN groupby_cols.v \o return_cols.v ELSE return_cols.v

groupby_and_agg(t, groupby_cols, agg_, collapse_multicolumn, return_cols, reset_index) ==
    IF InvalidAggKey(t, agg_)
    THEN SoftFail(t)
    ELSE IF reset_index \notin {None, "True", "False"}
    THEN AggFail("AssertionError", <<>>)
    ELSE IF \E j \in 1..Len(groupby_cols.v) : ~HasCol(t, groupby_cols.v[j])
    THEN AggFail("KeyError", <<>>)           \* raised by df.groupby
    ELSE IF agg_.dict /\ \E i \in 1..Len(agg_.items) : ~HasCol(t, agg_.items[i].key)
    THEN AggFail("KeyError", <<>>)           \* raised by .agg
    ELSE
      LET reset_index_ == reset_index \in {None, "True"}
          agg0 == GroupAgg(t, groupby_cols.v, agg_)
          agg1 == IF reset_index_ THEN ResetIndex(agg0) ELSE agg0
          step == CollapseStep(agg1, collapse_multicolumn)
          df_agg == step.df
          warn == step.warn
      IN IF return_cols.none
         THEN [err |-> NoErr, warn |-> warn, df |-> df_agg, same |-> FALSE]
         ELSE IF reset_index_ /\ groupby_cols.str
         THEN AggFail("TypeError", warn)
         ELSE LET r == GetItem(df_agg, ReturnCols(groupby_cols, return_cols, reset_index_))
              IN [err |-> r.err, warn |-> warn, df |-> r.df, same |-> FALSE]

(***************************************************************************)
(* The inputs explored.                                                    *)
(***************************************************************************)
G == <<"g">>
K == <<"k">>
X == <<"x">>
Q == <<"q">>
D == <<"d">>
D_YEAR == D \o US \o YEAR
D_MONTH == D \o US \o MONTH
X_SUM == X \o US \o SUM
X_MEAN == X \o US \o MEAN

ProjectNames == {"elo"}

FileNames == {<<"t">>}
Levels == {None, "raw", "interim", "processed", "external", "bogus", "RAW"}
FileTypes == {PARQUET, CSV, DOT \o PARQUET, DOT \o CSV, DOT \o DOT \o CSV,
              <<"C","S","V">>, <<"t","x","t">>, DOT, <<>>}

Row(vals) == [key |-> <<>>, val |-> vals]

\* frames (g, x): a str key and a number
GroupRows == {Row(<<g, x>>) : g \in {"a", "b"}, x \in {1, 3, 5}}
GroupFrames ==
    {Frame(<<G, X>>, <<"str", "num">>, data) : data \in SeqsUpTo(GroupRows, 1, MaxRows)}

\* frames (g, k, x): a str key, a numeric key and a number
MultiRows == {Row(<<g, k, x>>) : g \in {"a", "b"}, k \in {0, 1}, x \in {1, 3}}
MultiFrames ==
    {Frame(<<G, K, X>>, <<"str", "num", "num">>, data) :
        data \in SeqsUpTo(MultiRows, 1, MaxRowsMulti)}

\* one-row frames of up to MaxDateCols distinct columns among d, d_YEAR and
\* d_MONTH, each a datetime, a str or a number
DateNames == {D, D_YEAR, D_MONTH}
DateCells == {<<"date", Date(2019, 12)>>, <<"date", Date(2020, 1)>>,
              <<"str", "2020-01-15">>, <<"str", "bad">>, <<"num", 7>>}
DateFrames ==
    {Frame(names, [j \in 1..Len(names) |-> cells[j][1]],
           <<Row([j \in 1..Len(names) |-> cells[j][2]])>>) :
        <<names, cells>> \in
           {nc \in SeqsUpTo(DateNames, 1, MaxDateCols) \X SeqsUpTo(DateCells, 1, MaxDateCols) :
               /\ Len(nc[1]) = Len(nc[2])
               /\ \A i, j \in 1..Len(nc[1]) : i # j => nc[1][i] # nc[1][j]}}

InitFrames == GroupFrames \cup MultiFrames \cup DateFrames

DateColArgs == {<<>>, <<D>>, <<D_YEAR, D>>, <<Q>>}
KwArgs == {None, "True", "False"}

Str(name) == [str |-> TRUE, v |-> <<name>>]
List(names) == [str |-> FALSE, v |-> names]
GroupbyArgs == {Str(G), List(<<G>>), List(<<G, K>>), List(<<K, G>>)}

Fn(f) == [dict |-> FALSE, f |-> f, items |-> <<>>]
Dict(items) == [dict |-> TRUE, f |-> <<>>, items |-> items]
One(key, f) == [key |-> key, list |-> FALSE, fs |-> <<f>>]
Many(key, fs) == [key |-> key, list |-> TRUE, fs |-> fs]
AggArgs == {Fn(SUM), Dict(<<One(X, SUM)>>), Dict(<<Many(X, <<SUM, MEAN>>)>>),
            Dict(<<Many(X, <<MEAN>>)>>), Dict(<<One(Q, SUM)>>),
            Dict(<<Many(X, <<SUM>>), One(Q, MEAN)>>)}

NoCols == [none |-> TRUE, v |-> <<>>]
Cols(names) == [none |-> FALSE, v |-> names]
ReturnColArgs == {NoCols, Cols(<<X>>), Cols(<<X_SUM>>), Cols(<<X_MEAN, X_SUM>>),
                  Cols(<<G, X>>)}
ResetArgs == {None, "True", "False", "1"}

(***************************************************************************)
(* The state: the DirectoryMapper, the caller's DataFrame, the caller's    *)
(* position ("idle" before a call, "returned" after it), the last call     *)
(* (its arguments, with the frame as it was when the call started) and its *)
(* outcome.  Every function runs to completion within one step.            *)
(***************************************************************************)
NoCall == [op |-> "none"]
NoRet == [err |-> NoErr]

Init ==
    /\ self \in {DirectoryMapper(p, BaseDir) : p \in ProjectNames}
    /\ df \in InitFrames
    /\ pc = "idle"
    /\ call = NoCall
    /\ ret = NoRet

LoadData ==
    /\ pc = "idle"
    /\ \E file_name \in FileNames, level \in Levels, file_type \in FileTypes :
        /\ call' = [op |-> "load_data", file_name |-> file_name, level |-> level,
                    file_type |-> file_type]
        /\ ret' = load_data(self, file_name, level, file_type)
    /\ pc' = "returned"
    /\ UNCHANGED <<self, df>>

CreateDateParts ==
    /\ pc = "idle"
    /\ \E drop_date_cols \in BOOLEAN :
        LET r == create_date_parts(df, drop_date_cols)
        IN /\ call' = [op |-> "create_date_parts", df |-> df,
                       drop_date_cols |-> drop_date_cols]
           /\ ret' = r
           /\ df' = r.df
    /\ pc' = "returned"
    /\ UNCHANGED self

HandleDateCols ==
    /\ pc = "idle"
    /\ \E date_cols \in DateColArgs, add_date_parts \in BOOLEAN, kwargs \in KwArgs :
        LET r == handle_date_cols(df, date_cols, add_date_parts, kwargs)
            conv == ConvertLoop(df, date_cols)
        IN /\ call' = [op |-> "handle_date_cols", df |-> df, date_cols |-> date_cols,
                       add_date_parts |-> add_date_parts, kwargs |-> kwargs,
                       \* the frame handed to create_date_parts on line 101
                       parts_called |-> (conv.err = NoErr /\ add_date_parts),
                       parts_df |-> conv.df]
           /\ ret' = r
           /\ df' = r.df
    /\ pc' = "returned"
    /\ UNCHANGED self

GroupbyAndAgg ==
    /\ pc = "idle"
    /\ \E groupby_cols \in GroupbyArgs, agg_ \in AggArgs, collapse_multicolumn \in BOOLEAN,
          return_cols \in ReturnColArgs, reset_index \in ResetArgs :
        /\ call' = [op |-> "groupby_and_agg", df |-> df, groupby_cols |-> groupby_cols,
                    agg_ |-> agg_, collapse_multicolumn |-> collapse_multicolumn,
                    return_cols |-> return_cols, reset_index |-> reset_index]
        /\ ret' = groupby_and_agg(df, groupby_cols, agg_, collapse_multicolumn,
                                  return_cols, reset_index)
    /\ pc' = "returned"
    /\ UNCHANGED <<self, df>>

\* the caller moves on to its next call, with the frame as the call left it
NextCall ==
    /\ pc = "returned"
    /\ pc' = "idle"
    /\ call' = NoCall
    /\ ret' = NoRet
    /\ UNCHANGED <<self, df>>

Next == LoadData \/ CreateDateParts \/ HandleDateCols \/ GroupbyAndAgg \/ NextCall

Spec == Init /\ [][Next]_vars

(***************************************************************************)
(* Properties of DirectoryMapper.load_data.                                *)
(***************************************************************************)
Loaded == pc = "returned" /\ call.op = "load_data"

DataLevels == {"raw", "interim", "processed", "external"}

\* file_type with one leading '.' removed, as the documentation states it
Stripped(file_type) ==
    IF Len(file_type) > 0 /\ Head(file_type) = "." THEN Tail(file_type) ELSE file_type

\* C6: for a level among raw, interim, processed, external and a file type
\* parquet or csv, with or without one leading '.', the path handed to the
\* reader is <project>/data/<level>/<file_name>.<file_type>; for level None
\* it is <file_name>.<file_type> with no directory; for any other level the
\* call fails with the invalid-level error and no reader is invoked.
C6_PathResolution ==
    (Loaded /\ Stripped(call.file_type) \in {PARQUET, CSV}) =>
       LET name == call.file_name \o <<".">> \o Stripped(call.file_type)
       IN /\ call.level \in DataLevels =>
               /\ ret.err = NoErr
               /\ ret.reader # NoReader
               /\ ret.path = [dir |-> self.project_dir \o <<"data", call.level>>,
                              file |-> name]
          /\ call.level = None =>
               /\ ret.err = NoErr
               /\ ret.reader # NoReader
               /\ ret.path = [dir |-> <<>>, file |-> name]
          /\ call.level \notin DataLevels \cup {None} =>
               /\ ret.err = "ValueError: Please provide valid level"
               /\ ret.reader = NoReader

\* a dotted csv file is resolved under the interim directory
C6_Witness ==
    /\ Loaded
    /\ call.level = "interim"
    /\ call.file_type = <<".", "c", "s", "v">>
    /\ ret.reader = "read_csv"
    /\ ret.path.dir = BaseDir \o <<"elo", "data", "interim">>
    /\ ret.path.file = <<"t", ".", "c", "s", "v">>

\* C7: with a valid level, the parquet reader is invoked exactly when the
\* stripped file type is 'parquet', the csv reader exactly when it is 'csv',
\* and every other file type (the empty string included) fails with the
\* unsupported-file-type error without invoking a reader.
C7_FileTypeDispatch ==
    (Loaded /\ call.level \in DataLevels \cup {None}) =>
       /\ ret.reader = "read_parquet" <=> Stripped(call.file_type) = PARQUET
       /\ ret.reader = "read_csv" <=> Stripped(call.file_type) = CSV
       /\ Stripped(call.file_type) \notin {PARQUET, CSV} =>
            /\ ret.err = "ValueError: Provide valid file type"
            /\ ret.reader = NoReader

(***************************************************************************)
(* Properties of create_date_parts, called directly or by handle_date_cols *)
(***************************************************************************)
PartsCalled ==
    /\ pc = "returned"
    /\ \/ call.op = "create_date_parts"
       \/ call.op = "handle_date_cols" /\ call.parts_called

\* the frame when create_date_parts starts, and its drop_date_cols
PartsIn == IF call.op = "create_date_parts" THEN call.df ELSE call.parts_df

PartsDrop ==
    IF call.op = "create_date_parts" THEN call.drop_date_cols
    ELSE call.kwargs \in {None, "True"}

NamesOf(t) == {t.cols[i] : i \in 1..Len(t.cols)}

DateNamesOf(t) == {t.cols[i] : i \in {j \in 1..Len(t.cols) : t.dtypes[j] = "date"}}

PosOf(t, name) == CHOOSE i \in 1..Len(t.cols) : t.cols[i] = name

\* column name of t is a column of numbers whose value in every row is
\* part(value of column c of frame src)
HoldsPart(t, name, src, c, part(_)) ==
    /\ name \in NamesOf(t)
    /\ t.dtypes[PosOf(t, name)] = "num"
    /\ Len(t.data) = Len(src.data)
    /\ \A i \in 1..Len(t.data) :
          t.data[i].val[PosOf(t, name)] = part(src.data[i].val[PosOf(src, c)])

YearOf(v) == v.year
MonthOf(v) == v.month

\* column c of t is the datetime column c of src, unchanged
SameDates(t, src, c) ==
    /\ c \in NamesOf(t)
    /\ t.dtypes[PosOf(t, c)] = "date"
    /\ \A i \in 1..Len(t.data) :
          t.data[i].val[PosOf(t, c)] = src.data[i].val[PosOf(src, c)]

\* c_YEAR comes before c_MONTH when the call had to add both
YearBeforeMonth(t, src, c) ==
    (c \o <<"_","Y","E","A","R">> \notin NamesOf(src)
       /\ c \o <<"_","M","O","N","T","H">> \notin NamesOf(src))
    => PosOf(t, c \o <<"_","Y","E","A","R">>) < PosOf(t, c \o <<"_","M","O","N","T","H">>)

\* no datetime column bears the name of a part derived from a datetime column
NoPartNameIsDate(t) ==
    \A c \in DateNamesOf(t), e \in DateNamesOf(t) :
        e # c \o <<"_","Y","E","A","R">> /\ e # c \o <<"_","M","O","N","T","H">>

C10_Idempotent ==
    (pc = "returned" /\ call.op = "create_date_parts" /\ ~call.drop_date_cols) =>
       /\ ret.err = NoErr
       /\ create_date_parts(ret.df, FALSE).err = NoErr
       /\ create_date_parts(ret.df, FALSE).df = ret.df

(***************************************************************************)
(* Properties of groupby_and_agg.                                          *)
(***************************************************************************)
Agged == pc = "returned" /\ call.op = "groupby_and_agg"

GroupKeys == call.groupby_cols.v

\* every key of a dict agg_ is a column of df
AggKeysPresent ==
    call.agg_.dict =>
       \A i \in 1..Len(call.agg_.items) : call.agg_.items[i].key \in NamesOf(call.df)

ResetOn == call.reset_index \in {None, "True"}

\* the call gets past validation, the reset_index assertion and df.groupby
Runs ==
    /\ Agged
    /\ AggKeysPresent
    /\ call.reset_index \in {None, "True", "False"}
    /\ \A j \in 1..Len(GroupKeys) : GroupKeys[j] \in NamesOf(call.df)

\* agg_ gives some column a list of functions
TwoLevel == call.agg_.dict /\ \E i \in 1..Len(call.agg_.items) : call.agg_.items[i].list

\* the returned columns are flat names
FlatResult == ~TwoLevel \/ call.collapse_multicolumn

\* the columns of the aggregated result
ExpectedAggLabels ==
    IF ~call.agg_.dict
    THEN SelectSeq(call.df.cols, LAMBDA n : \A j \in 1..Len(GroupKeys) : GroupKeys[j] # n)
    ELSE IF ~TwoLevel
    THEN [i \in 1..Len(call.agg_.items) |-> call.agg_.items[i].key]
    ELSE Flatten([i \in 1..Len(call.agg_.items) |->
            [j \in 1..Len(call.agg_.items[i].fs) |->
                IF call.collapse_multicolumn
                THEN call.agg_.items[i].key \o <<"_">> \o call.agg_.items[i].fs[j]
                ELSE <<call.agg_.items[i].key, call.agg_.items[i].fs[j]>>]])

ExpectedKeyLabels ==
    IF ~ResetOn THEN <<>>
    ELSE [j \in 1..Len(GroupKeys) |->
            IF FlatResult THEN GroupKeys[j] ELSE <<GroupKeys[j], <<>>>>]

ExpectedCols == ExpectedKeyLabels \o ExpectedAggLabels

\* return_cols is given and names columns of the aggregated result
ReturnColsNamed ==
    /\ ~call.return_cols.none
    /\ FlatResult
    /\ \A j \in 1..Len(call.return_cols.v) :
          \E i \in 1..Len(ExpectedCols) : ExpectedCols[i] = call.return_cols.v[j]

\* the key combination of each input row and of each output row
InKeys ==
    [i \in 1..Len(call.df.data) |->
        [j \in 1..Len(GroupKeys) |-> call.df.data[i].val[PosOf(call.df, GroupKeys[j])]]]

OutKeys ==
    [i \in 1..Len(ret.df.data) |->
        IF ResetOn THEN SubSeq(ret.df.data[i].val, 1, Len(GroupKeys))
        ELSE ret.df.data[i].key]

\* the rows (a,1), (a,3), (b,5) of the documentation
ExampleFrame ==
    Frame(<<G, X>>, <<"str", "num">>,
          <<Row(<<"a", 1>>), Row(<<"a", 3>>), Row(<<"b", 5>>)>>)

\* C1: when some key of a dict agg_ is not a column of df, the call warns
\* and returns the argument df itself, unchanged, without raising, whatever
\* groupby_cols, collapse_multicolumn, return_cols and reset_index are.
C1_FailSoft ==
    (Agged /\ ~AggKeysPresent) =>
       /\ ret.err = NoErr
       /\ ret.warn = <<W_INVALID>>
       /\ ret.same
       /\ ret.df = call.df

\* a missing key next to a valid one, a str groupby_cols, a non-bool
\* reset_index and a return_cols: still the soft failure
C1_Witness ==
    /\ Agged
    /\ call.agg_ = Dict(<<Many(X, <<SUM>>), One(Q, MEAN)>>)
    /\ call.df = ExampleFrame
    /\ call.groupby_cols.str
    /\ call.reset_index = "1"
    /\ ~call.return_cols.none
    /\ ret.same
    /\ ret.warn = <<W_INVALID>>

\* C2: with collapse_multicolumn=True and a dict agg_ that gives a column a
\* list of functions, the result has one row per distinct combination of
\* groupby values and flat names: (name, func) is 'name_func', a grouping
\* key brought in by reset_index is 'name', and the number and order of the
\* columns are kept; the documented example gives ('a',4,2.0), ('b',5,5.0).
C2_Collapse ==
    (Runs /\ TwoLevel /\ call.collapse_multicolumn /\ call.return_cols.none) =>
       /\ ret.err = NoErr
       /\ ~ret.df.multi
       /\ ret.df.cols = ExpectedCols
       /\ Len(ret.df.data) = Cardinality({InKeys[i] : i \in 1..Len(InKeys)})
       /\ (call.df = ExampleFrame /\ GroupKeys = <<G>> /\ ResetOn
              /\ call.agg_ = Dict(<<Many(X, <<SUM, MEAN>>)>>))
          => /\ ret.df.cols = <<<<"g">>, <<"x","_","s","u","m">>, <<"x","_","m","e","a","n">>>>
             /\ ret.df.data = <<Row(<<"a", 4, [n |-> 4, d |-> 2]>>),
                                Row(<<"b", 5, [n |-> 5, d |-> 1]>>)>>

C2_Witness ==
    /\ Runs
    /\ call.df = ExampleFrame
    /\ call.groupby_cols = List(<<G>>)
    /\ call.agg_ = Dict(<<Many(X, <<SUM, MEAN>>)>>)
    /\ call.collapse_multicolumn
    /\ call.return_cols.none
    /\ call.reset_index = None
    /\ ret.df.cols = <<G, X_SUM, X_MEAN>>
    /\ Len(ret.df.data) = 2

\* C3: for a list groupby_cols and a return_cols that names columns of the
\* aggregated result, the returned columns are groupby_cols followed by
\* return_cols when reset_index is true and return_cols as given when it is
\* false, each with the values it has in the aggregated result; with
\* return_cols None every column of the aggregated result is returned.
C3_Narrowing ==
    /\ (Runs /\ ~call.groupby_cols.str /\ ReturnColsNamed) =>
          LET want == (IF ResetOn THEN GroupKeys ELSE <<>>) \o call.return_cols.v
              full == groupby_and_agg(call.df, call.groupby_cols, call.agg_,
                                      call.collapse_multicolumn, NoCols,
                                      call.reset_index).df
          IN /\ ret.err = NoErr
             /\ ret.df.cols = want
             /\ Len(ret.df.data) = Len(full.data)
             /\ \A i \in 1..Len(full.data), j \in 1..Len(want) :
                   ret.df.data[i].val[j] = full.data[i].val[PosOf(full, want[j])]
    /\ (Runs /\ call.return_cols.none) =>
          /\ ret.err = NoErr
          /\ ret.df.cols = ExpectedCols

\* groupby ['g','k'], return_cols ['x_mean','x_sum'], index reset
C3_Witness ==
    /\ Runs
    /\ call.groupby_cols = List(<<G, K>>)
    /\ call.return_cols = Cols(<<X_MEAN, X_SUM>>)
    /\ ResetOn
    /\ ret.err = NoErr
    /\ ret.df.cols = <<G, K, X_MEAN, X_SUM>>

\* C4: groupby_cols may be a str or a list; in both forms, with the default
\* reset_index, a return_cols that names columns of the aggregated result
\* gives the grouping column(s) followed by return_cols, without failing.
C4_StrOrList ==
    (Runs /\ call.reset_index = None /\ ReturnColsNamed) =>
       /\ ret.err = NoErr
       /\ ret.df.cols = GroupKeys \o call.return_cols.v

\* C5: with collapse_multicolumn=True and a single-level aggregation result
\* (agg_ a function name, or a dict of single function names) the warning
\* is emitted, nothing is raised and the column names are unchanged; the
\* documented example gives columns ['g','x'] and rows ('a',4), ('b',5).
C5_SingleLevel ==
    (Runs /\ ~TwoLevel /\ call.collapse_multicolumn) =>
       /\ ret.warn = <<W_NOMULTI>>
       /\ call.return_cols.none =>
            /\ ret.err = NoErr
            /\ ret.df.cols = ExpectedCols
       /\ (call.df = ExampleFrame /\ GroupKeys = <<G>> /\ call.reset_index = "True"
              /\ call.agg_ = Dict(<<One(X, SUM)>>) /\ call.return_cols.none)
          => /\ ret.df.cols = <<<<"g">>, <<"x">>>>
             /\ ret.df.data = <<Row(<<"a", 4>>), Row(<<"b", 5>>)>>

C5_Witness ==
    /\ Runs
    /\ call.df = ExampleFrame
    /\ call.groupby_cols = List(<<G>>)
    /\ call.agg_ = Dict(<<One(X, SUM)>>)
    /\ call.collapse_multicolumn
    /\ call.return_cols.none
    /\ call.reset_index = "True"
    /\ ret.warn = <<W_NOMULTI>>
    /\ ret.df.cols = <<G, X>>

\* the distinct elements of a sequence in the order of their first occurrence
RECURSIVE FirstSeen(_)
FirstSeen(s) ==
    IF s = <<>> THEN <<>>
    ELSE LET r == FirstSeen(SubSeq(s, 1, Len(s) - 1))
         IN IF Contains(r, s[Len(s)]) THEN r ELSE Append(r, s[Len(s)])

\* C9 (as claimed): the output rows appear in the order in which each
\* distinct combination of groupby values is first seen in the input rows.
C9_FirstSeenOrder ==
    (Runs /\ call.return_cols.none /\ ret.err = NoErr) => OutKeys = FirstSeen(InKeys)

\* C9 (amended): the output has one row per distinct combination of groupby
\* values, in ascending order of the combination (compared column by column
\* in groupby_cols order), whatever the order of the input rows.
C9_SortedOrder ==
    (Runs /\ call.return_cols.none) =>
       /\ ret.err = NoErr
       /\ {OutKeys[i] : i \in 1..Len(OutKeys)} = {InKeys[i] : i \in 1..Len(InKeys)}
       /\ \A i, j \in 1..Len(OutKeys) :
             i < j => LessKey([n \in 1..Len(GroupKeys) |->
                                  call.df.dtypes[PosOf(call.df, GroupKeys[n])]],
                              OutKeys[i], OutKeys[j])

\* input rows with key b, then a, then b: the output is a, then b
C9_Witness ==
    /\ Runs
    /\ call.return_cols.none
    /\ GroupKeys = <<G>>
    /\ InKeys = <<<<"b">>, <<"a">>, <<"b">>>>
    /\ OutKeys = <<<<"a">>, <<"b">>>>

=============================================================================
